---- MODULE Spec2Model ----
(***************************************************************************)
(* Model of the workshop demos: the transcript cleaner and transcript      *)
(* loader of the YouTube Q&A app, the FastAPI Iris endpoint and the        *)
(* Streamlit Iris app.  Strings are sequences of one-character strings.    *)
(***************************************************************************)
EXTENDS Integers, Sequences, FiniteSets, TLC

\* ------------------------------------------------------------------------
\* Bounds of the model
\* ------------------------------------------------------------------------
MaxFrags == 3
MaxLongFrags == 2

\* ------------------------------------------------------------------------
\* Python string primitives
\* ------------------------------------------------------------------------
Whitespace == {" ", "\n", "\t"}

MinOf(S) == CHOOSE x \in S : \A y \in S : x <= y

RECURSIVE SortedSeq(_)
SortedSeq(S) == IF S = {} THEN <<>>
                ELSE LET m == MinOf(S) IN <<m>> \o SortedSeq(S \ {m})

\* str.split() with no argument: the maximal runs of non-whitespace
\* characters, in order; leading and trailing whitespace yields no word.
StrSplit(text) ==
    LET n == Len(text)
        ws == {i \in 1..n : text[i] \in Whitespace}
        starts == {i \in 1..n : text[i] \notin Whitespace
                                /\ (i = 1 \/ (i - 1) \in ws)}
        endOf(s) == MinOf({w \in ws : w > s} \cup {n + 1}) - 1
        ord == SortedSeq(starts)
    IN [k \in 1..Len(ord) |-> SubSeq(text, ord[k], endOf(ord[k]))]

\* sep.join(words)
RECURSIVE StrJoin(_, _)
StrJoin(sep, words) ==
    IF words = <<>> THEN <<>>
    ELSE IF Len(words) = 1 THEN words[1]
    ELSE words[1] \o sep \o StrJoin(sep, Tail(words))

\* Start positions of the occurrences of pat in text.
Occurrences(text, pat) ==
    {i \in 1..(Len(text) - Len(pat) + 1) :
        SubSeq(text, i, i + Len(pat) - 1) = pat}

\* str.replace(old, new): one left-to-right pass over the original text;
\* each occurrence found at or after the scan position is replaced and the
\* scan continues after it.  The result is never scanned again.
RECURSIVE ReplaceFrom(_, _, _, _, _)
ReplaceFrom(text, occ, old, new, pos) ==
    LET rest == {p \in occ : p >= pos} IN
    IF rest = {} THEN SubSeq(text, pos, Len(text))
    ELSE LET p == MinOf(rest)
         IN SubSeq(text, pos, p - 1) \o new
              \o ReplaceFrom(text, occ, old, new, p + Len(old))

StrReplace(text, old, new) ==
    ReplaceFrom(text, Occurrences(text, old), old, new, 1)

\* old in text
Contains(text, pat) == Occurrences(text, pat) # {}

\* ------------------------------------------------------------------------
\* clean_transcript
\* ------------------------------------------------------------------------
MUSIC == <<"[", "M", "u", "s", "i", "c", "]">>
APPLAUSE == <<"[", "A", "p", "p", "l", "a", "u", "s", "e", "]">>
TranscriptLimit == 4000

NormalizeWhitespace(text) == StrJoin(<<" ">>, StrSplit(text))

RemoveMarkers(text) == StrReplace(StrReplace(text, MUSIC, <<>>), APPLAUSE, <<>>)

TruncateOffByOne(text) ==
    SubSeq(text, 1, IF Len(text) < TranscriptLimit + 1 THEN Len(text) ELSE TranscriptLimit + 1)

Truncate(text) ==
    SubSeq(text, 1, IF Len(text) < TranscriptLimit THEN Len(text) ELSE TranscriptLimit)

CleanedText(text) == RemoveMarkers(NormalizeWhitespace(text))

clean_transcript(text) == Truncate(CleanedText(text))

\* ------------------------------------------------------------------------
\* Inputs of the cleaner: concatenations of fragments that contain the
\* markers whole, split, nested and next to whitespace, optionally after a
\* long run of spoken text that brings the length up to the limit.
\* ------------------------------------------------------------------------
Fragments ==
    { MUSIC, APPLAUSE,
      <<"[", "M", "u">>, <<"s", "i", "c", "]">>,
      <<"[", "A", "p", "p">>, <<"l", "a", "u", "s", "e", "]">>,
      <<" ">>, <<"\n">>, <<"h", "i">> }

RECURSIVE Flatten(_)
Flatten(ss) == IF ss = <<>> THEN <<>> ELSE ss[1] \o Flatten(Tail(ss))

FragSeqs(n) == UNION {[1..k -> Fragments] : k \in 0..n}

Pad(n) == [i \in 1..n |-> "a"]

PadLengths == {TranscriptLimit - 6, TranscriptLimit}

CleanInputs ==
    {Flatten(fs) : fs \in FragSeqs(MaxFrags)}
    \cup {Pad(p) \o Flatten(fs) : p \in PadLengths, fs \in FragSeqs(MaxLongFrags)}

\* ------------------------------------------------------------------------
\* get_transcript_content
\* ------------------------------------------------------------------------
MaxParams == 2
MaxSegs == 2

None == "None"

\* Exceptions are records of a class and a message.  Every class raised by
\* urlparse, by the transcript API and by the segment lookup derives from
\* Exception.
ExceptionClasses == {"ValueError", "KeyError", "TranscriptsDisabled", "NoTranscriptFound"}

Exc(cls, text) == [cls |-> cls, text |-> text]

\* A URL as urlparse sees it: it either raises (unbalanced brackets in the
\* host) or yields a query string, here its "key=value" pairs in order.
QueryKeys == {"v", "t"}
QueryValues == {"", "LWMzyfvuehA"}
QueryPairs == {<<k, v>> : k \in QueryKeys, v \in QueryValues}
Queries == UNION {[1..n -> QueryPairs] : n \in 0..MaxParams}

Urls == {[parse |-> "ok", query |-> q] : q \in Queries}
        \cup {[parse |-> "raises", query |-> <<>>]}

\* parse_qs(query): blank values are dropped (keep_blank_values=False); the
\* remaining values are grouped by key in order of appearance.
RECURSIVE ValuesOf(_, _)
ValuesOf(query, key) ==
    IF query = <<>> THEN <<>>
    ELSE LET rest == ValuesOf(Tail(query), key)
         IN IF Head(query)[1] = key /\ Head(query)[2] # ""
            THEN <<Head(query)[2]>> \o rest
            ELSE rest

parse_qs(query) ==
    LET keys == {k \in {query[i][1] : i \in 1..Len(query)} : ValuesOf(query, k) # <<>>}
    IN [k \in keys |-> ValuesOf(query, k)]

\* query_params.get('v', [None])[0]
VideoIdOf(query_params) ==
    IF "v" \in DOMAIN query_params THEN query_params["v"][1] ELSE None

NotVideoIdOnlyBlank(video_id) == video_id = ""

\* not video_id
NotVideoId(video_id) == video_id = None \/ video_id = ""

\* What YouTubeTranscriptApi.get_transcript does when called: it raises, or
\* returns a list of segments; a segment normally carries a "text" entry.
SegmentTexts == { MUSIC, <<"h", "i">>, <<"[", "M", "u">>, <<"s", "i", "c", "]">>, <<" ">> }
Segments == {[hasText |-> TRUE, text |-> t] : t \in SegmentTexts}
            \cup {[hasText |-> FALSE, text |-> <<>>]}
TranscriptLists == UNION {[1..n -> Segments] : n \in 0..MaxSegs}

ApiBehaviours ==
    {[raises |-> TRUE, exc |-> Exc(c, c), list |-> <<>>] : c \in {"TranscriptsDisabled", "NoTranscriptFound"}}
    \cup {[raises |-> FALSE, exc |-> Exc("", ""), list |-> l] : l \in TranscriptLists}

\* st.error(...) messages
Msg(kind, parts) == [kind |-> kind, text |-> parts]
InvalidUrlMsg == Msg("error", <<"Invalid YouTube URL">>)
TranscriptErrorMsg(e) == Msg("error", <<"Error getting transcript: ", e.text>>)

\* The body of the try block, lines 82-96.  It ends by the early return, by
\* falling through, or by an exception; content is the local variable as the
\* block leaves it, fetched the video ids passed to the transcript API.
TryBody(url, api) ==
    IF url.parse = "raises"
    THEN [end |-> "raise", exc |-> Exc("ValueError", "Invalid IPv6 URL"), content |-> <<>>,
          msgs |-> <<>>, fetched |-> <<>>]
    ELSE
    LET video_id == VideoIdOf(parse_qs(url.query)) IN
    IF NotVideoId(video_id)
    THEN [end |-> "return", exc |-> Exc("", ""), content |-> <<>>,
          msgs |-> <<InvalidUrlMsg>>, fetched |-> <<>>]
    ELSE IF api.raises
    THEN [end |-> "raise", exc |-> api.exc, content |-> <<>>,
          msgs |-> <<>>, fetched |-> <<video_id>>]
    ELSE IF \E i \in 1..Len(api.list) : ~api.list[i].hasText
    THEN [end |-> "raise", exc |-> Exc("KeyError", "'text'"), content |-> <<>>,
          msgs |-> <<>>, fetched |-> <<video_id>>]
    ELSE LET joined == StrJoin(<<" ">>, [i \in 1..Len(api.list) |-> api.list[i].text])
         IN [end |-> "fall", exc |-> Exc("", ""), content |-> clean_transcript(joined),
             msgs |-> <<>>, fetched |-> <<video_id>>]

ExceptCatchesValueError(e) == e.cls = "ValueError"

\* except Exception as e
ExceptCatches(e) == e.cls \in ExceptionClasses

\* Lines 98-102 applied to the way b the try block ended: outcome "return"
\* with the returned content, or "raise" when the exception is not caught.
ExceptHandler(b) ==
    IF b.end = "raise"
    THEN IF ExceptCatches(b.exc)
         THEN [outcome |-> "return", ret |-> b.content, exc |-> Exc("", ""),
               msgs |-> b.msgs \o <<TranscriptErrorMsg(b.exc)>>, fetched |-> b.fetched]
         ELSE [outcome |-> "raise", ret |-> <<>>, exc |-> b.exc,
               msgs |-> b.msgs, fetched |-> b.fetched]
    ELSE [outcome |-> "return", ret |-> b.content, exc |-> Exc("", ""),
          msgs |-> b.msgs, fetched |-> b.fetched]

\* The whole function.
get_transcript_content(url, api) == ExceptHandler(TryBody(url, api))

\* ------------------------------------------------------------------------
\* FastAPI deployment: GET / and POST /predict/
\* ------------------------------------------------------------------------
ModelRange == 4

\* Measurements in tenths of a centimetre.
FeatureValues == {2, 51}

PredictionInputs ==
    [sepal_length : FeatureValues, sepal_width : FeatureValues,
     petal_length : FeatureValues, petal_width : FeatureValues]

\* What the numpy conversion and the loaded classifier do on a request:
\* np.array raises, model.predict raises, or model.predict returns an array
\* whose first element is some integer.
ModelBehaviours ==
    {[step |-> "array_raises", exc |-> Exc("MemoryError", "Unable to allocate array"), code |-> 0]}
    \cup {[step |-> "predict_raises", exc |-> Exc("ValueError", "X has 4 features, but the estimator is expecting 3"), code |-> 0]}
    \cup {[step |-> "predicts", exc |-> Exc("", ""), code |-> k] : k \in (0 - ModelRange)..ModelRange}

iris_types == <<"setosa", "versicolor", "virginica">>

ListIndexDefault(list, k) ==
    IF 0 <= k /\ k < Len(list) THEN [ok |-> TRUE, value |-> list[k + 1]]
    ELSE [ok |-> TRUE, value |-> "unknown"]

\* list[k] in Python: zero-based, negative k counts from the end, anything
\* else raises IndexError.
ListIndex(list, k) ==
    IF 0 <= k /\ k < Len(list) THEN [ok |-> TRUE, value |-> list[k + 1]]
    ELSE IF k < 0 /\ 0 - Len(list) <= k THEN [ok |-> TRUE, value |-> list[Len(list) + k + 1]]
    ELSE [ok |-> FALSE, value |-> ""]

NoBody == [prediction |-> "", prediction_code |-> 0]

\* The try block of predict, lines 74-105.
PredictTry(input_data, mb) ==
    IF mb.step # "predicts"
    THEN [end |-> "raise", exc |-> mb.exc, body |-> NoBody]
    ELSE LET result == ListIndex(iris_types, mb.code) IN
         IF ~result.ok
         THEN [end |-> "raise", exc |-> Exc("IndexError", "list index out of range"), body |-> NoBody]
         ELSE [end |-> "return", exc |-> Exc("", ""),
               body |-> [prediction |-> result.value, prediction_code |-> mb.code]]

PredictCatchesValueError(e) == e.cls = "ValueError"

\* except Exception as e, line 111
PredictCatches(e) == e.cls \in {"MemoryError", "ValueError", "IndexError"}

\* The handler: a JSON body, an HTTPException(500, str(e)), or any other
\* exception leaving the handler.
predict(input_data, mb) ==
    LET t == PredictTry(input_data, mb) IN
    IF t.end = "return"
    THEN [kind |-> "json", status |-> 200, body |-> t.body, detail |-> "", exc |-> Exc("", "")]
    ELSE IF PredictCatches(t.exc)
    THEN [kind |-> "http_exception", status |-> 500, body |-> NoBody, detail |-> t.exc.text, exc |-> Exc("", "")]
    ELSE [kind |-> "exception", status |-> 0, body |-> NoBody, detail |-> "", exc |-> t.exc]

read_root ==
    [kind |-> "welcome", status |-> 200, body |-> NoBody, detail |-> "", exc |-> Exc("", "")]

\* ------------------------------------------------------------------------
\* Streamlit Iris app: the script is run from top to bottom on every
\* interaction; st.cache_resource keeps load_model's result across runs.
\* ------------------------------------------------------------------------
MaxRuns == 4

\* Slider positions in tenths of a centimetre: the default and one other.
SliderDefaults ==
    [sepal_length |-> 54, sepal_width |-> 34, petal_length |-> 13, petal_width |-> 2]
SliderNames == {"sepal_length", "sepal_width", "petal_length", "petal_width"}
SliderRange ==
    [sepal_length |-> {54, 80}, sepal_width |-> {34, 20},
     petal_length |-> {13, 70}, petal_width |-> {2, 25}]

\* What the environment does during one run: joblib.load finds the artifact
\* or raises, predict raises or yields an integer, predict_proba raises or
\* yields the probabilities.
RunBehaviours ==
    {[load |-> l, predict |-> "raises", code |-> 0, proba |-> "ok"] : l \in {"ok", "raises"}}
    \cup {[load |-> l, predict |-> "ok", code |-> k, proba |-> pr] :
            l \in {"ok", "raises"}, k \in {0, 1, 2, 3}, pr \in {"ok", "raises"}}

species_names == <<"Setosa", "Versicolor", "Virginica">>

load_model_uncached(cache, loads, rb) ==
    IF rb.load = "raises"
    THEN [raised |-> TRUE, model |-> 0, cache |-> cache, loads |-> loads]
    ELSE [raised |-> FALSE, model |-> loads + 1, cache |-> loads + 1, loads |-> loads + 1]

\* @st.cache_resource load_model(): the cached object when there is one;
\* otherwise joblib.load runs, and its result (object number loads + 1) is
\* stored unless it raised.  cache = 0 stands for an empty cache.
load_model(cache, loads, rb) ==
    IF cache # 0
    THEN [raised |-> FALSE, model |-> cache, cache |-> cache, loads |-> loads]
    ELSE IF rb.load = "raises"
    THEN [raised |-> TRUE, model |-> 0, cache |-> cache, loads |-> loads]
    ELSE [raised |-> FALSE, model |-> loads + 1, cache |-> loads + 1, loads |-> loads + 1]

NoRun == [kind |-> "none", origin |-> "", model |-> 0, species |-> ""]

\* One run of the script, lines 48-129: the page it renders, or the
\* exception that leaves the script and the call that raised it.
IrisScript(cache, loads, rb) ==
    LET lm == load_model(cache, loads, rb) IN
    IF lm.raised
    THEN [kind |-> "uncaught", origin |-> "joblib.load", model |-> 0, species |-> ""]
    ELSE IF rb.predict = "raises"
    THEN [kind |-> "uncaught", origin |-> "predict", model |-> lm.model, species |-> ""]
    ELSE IF rb.proba = "raises"
    THEN [kind |-> "uncaught", origin |-> "predict_proba", model |-> lm.model, species |-> ""]
    ELSE LET sp == ListIndex(species_names, rb.code) IN
         IF ~sp.ok
         THEN [kind |-> "uncaught", origin |-> "species_names", model |-> lm.model, species |-> ""]
         ELSE [kind |-> "rendered", origin |-> "", model |-> lm.model, species |-> sp.value]

\* ------------------------------------------------------------------------
\* Transcript Q&A app: main_page is run from top to bottom on every
\* interaction; st.session_state and the widget values persist between runs.
\* ------------------------------------------------------------------------
MaxInvokes == 3

UpperLetters == <<"A", "B", "C", "D", "E", "F", "G", "H", "I", "J", "K", "L", "M",
                  "N", "O", "P", "Q", "R", "S", "T", "U", "V", "W", "X", "Y", "Z">>
LowerLetters == <<"a", "b", "c", "d", "e", "f", "g", "h", "i", "j", "k", "l", "m",
                  "n", "o", "p", "q", "r", "s", "t", "u", "v", "w", "x", "y", "z">>

\* str.lower()
LowerChar(c) ==
    IF \E i \in 1..26 : UpperLetters[i] = c
    THEN LowerLetters[CHOOSE i \in 1..26 : UpperLetters[i] = c]
    ELSE c
StrLower(text) == [i \in 1..Len(text) |-> LowerChar(text[i])]

SUGGESTED_QUESTIONS == <<
    <<"W", "h", "a", "t", " ", "i", "s", " ", "t", "h", "e", " ", "m", "a", "i", "n", " ", "t", "o", "p", "i", "c", " ", "c", "o", "v", "e", "r", "e", "d", " ", "i", "n", " ", "t", "h", "i", "s", " ", "v", "i", "d", "e", "o", "?">>,
    <<"L", "i", "s", "t", " ", "t", "h", "e", " ", "k", "e", "y", " ", "p", "o", "i", "n", "t", "s", " ", "i", "n", " ", "b", "u", "l", "l", "e", "t", " ", "p", "o", "i", "n", "t", "s", ".">>,
    <<"W", "h", "a", "t", " ", "a", "r", "e", " ", "t", "h", "e", " ", "t", "o", "p", " ", "t", "a", "k", "e", "a", "w", "a", "y", "s", " ", "f", "r", "o", "m", " ", "t", "h", "i", "s", " ", "c", "o", "n", "t", "e", "n", "t", "?">>,
    <<"C", "a", "n", " ", "y", "o", "u", " ", "s", "u", "m", "m", "a", "r", "i", "z", "e", " ", "t", "h", "e", " ", "v", "i", "d", "e", "o", " ", "b", "r", "i", "e", "f", "l", "y", "?">>,
    <<"A", "r", "e", " ", "t", "h", "e", "r", "e", " ", "a", "n", "y", " ", "i", "m", "p", "o", "r", "t", "a", "n", "t", " ", "e", "x", "a", "m", "p", "l", "e", "s", " ", "o", "r", " ", "f", "a", "c", "t", "s", " ", "m", "e", "n", "t", "i", "o", "n", "e", "d", "?">> >>

DefaultQuestion == <<"W", "h", "a", "t", " ", "i", "s", " ", "t", "h", "i", "s", " ", "v", "i", "d", "e", "o", " ", "a", "b", "o", "u", "t", "?">>
BulletSuffix ==
    <<" ", "P", "l", "e", "a", "s", "e", " ", "f", "o", "r", "m", "a", "t", " ", "a", "s", " ", "b", "u", "l", "l", "e", "t", " ", "p", "o", "i", "n", "t", "s", ".">>
BulletNeedle == <<"b", "u", "l", "l", "e", "t", " ", "p", "o", "i", "n", "t", "s">>

\* The URL box: its default value, a URL without v, and one urlparse rejects.
DefaultUrl == [parse |-> "ok", query |-> <<<<"v", "LWMzyfvuehA">>, <<"t", "1369s">>>>]
YtUrls == {DefaultUrl,
           [parse |-> "ok", query |-> <<<<"t", "1369s">>>>],
           [parse |-> "raises", query |-> <<>>]}

\* The transcript API as the app meets it: it raises, or returns captions.
YtApiBehaviours ==
    {[raises |-> TRUE, exc |-> Exc("TranscriptsDisabled", "TranscriptsDisabled"), list |-> <<>>],
     [raises |-> FALSE, exc |-> Exc("", ""), list |-> <<>>],
     [raises |-> FALSE, exc |-> Exc("", ""), list |-> <<[hasText |-> TRUE, text |-> <<"h", "i">>]>>],
     [raises |-> FALSE, exc |-> Exc("", ""),
      list |-> <<[hasText |-> TRUE, text |-> MUSIC], [hasText |-> TRUE, text |-> <<"o", "k">>]>>]}

\* chain.invoke answers or raises (Ollama not running).
LlmBehaviours == {"answers", "raises"}

\* What the user may type into the question box.
UserQuestions == {<<>>, <<"h", "i", "?">>, <<"B", "u", "l", "l", "e", "t", " ", "P", "o", "i", "n", "t", "s">>}

NoApiCall == [raises |-> FALSE, exc |-> Exc("", ""), list |-> <<>>]
NoQuestion == [set |-> FALSE, text |-> <<>>]
NoTextArea == [shown |-> FALSE, default |-> <<>>, value |-> <<>>]
NoInvoke == [content |-> <<>>, question |-> <<>>]

LoadOutcomeAlwaysStore(content, r) ==
    IF r.outcome = "raise"
    THEN [uncaught |-> TRUE, content |-> content, msgs |-> r.msgs]
    ELSE IF r.ret # <<>>
    THEN [uncaught |-> FALSE, content |-> r.ret, msgs |-> r.msgs \o <<Msg("success", <<"Loaded!">>)>>]
    ELSE [uncaught |-> FALSE, content |-> r.ret,
          msgs |-> r.msgs \o <<Msg("error", <<"Could not load transcript">>)>>]

\* Lines 142-146: what the Load Video branch does with the result r of
\* get_transcript_content: the new session content and the messages shown.
LoadOutcome(content, r) ==
    IF r.outcome = "raise"
    THEN [uncaught |-> TRUE, content |-> content, msgs |-> r.msgs]
    ELSE IF r.ret # <<>>
    THEN [uncaught |-> FALSE, content |-> r.ret, msgs |-> r.msgs \o <<Msg("success", <<"Loaded!">>)>>]
    ELSE [uncaught |-> FALSE, content |-> content,
          msgs |-> r.msgs \o <<Msg("error", <<"Could not load transcript">>)>>]

\* Lines 139-146: the Load Video branch.
LoadVideo(content, url, api) == LoadOutcome(content, get_transcript_content(url, api))

\* Lines 157-161: the quick-question button with index quick (0: none) was
\* clicked; the question it stores in session_state.current_question.
QuickQuestion(cq, quick, use_bullets) ==
    IF quick = 0 THEN cq
    ELSE [set |-> TRUE,
          text |-> IF use_bullets THEN SUGGESTED_QUESTIONS[quick] \o BulletSuffix
                   ELSE SUGGESTED_QUESTIONS[quick]]

\* Lines 164-168: st.text_area has no key, so the widget is identified by
\* its arguments; it keeps what the user typed while the value argument is
\* the same as in the previous run and starts from the argument otherwise.
TextArea(ta, cq) ==
    LET d == IF cq.set THEN cq.text ELSE DefaultQuestion IN
    [shown |-> TRUE, default |-> d,
     value |-> IF ta.shown /\ ta.default = d THEN ta.value ELSE d]

QuestionSentAlwaysAppend(question, use_bullets) ==
    IF use_bullets THEN question \o BulletSuffix ELSE question

\* Lines 174-175: the question handed to the chain.
QuestionSent(question, use_bullets) ==
    IF use_bullets /\ ~Contains(StrLower(question), BulletNeedle)
    THEN question \o BulletSuffix
    ELSE question

\* Lines 153-154 and 170-188: the expander shows the session content; the
\* question box holds ta.value; the chain is invoked when it is not empty,
\* and its answer or its error is shown.
AskQuestion(sess, ld, cq, ta, llm) ==
    IF ta.value = <<>>
    THEN [sess EXCEPT !.content = ld.content, !.cq = cq, !.ta = ta,
                      !.expander = ld.content,
                      !.msgs = ld.msgs, !.uncaught = FALSE]
    ELSE [sess EXCEPT !.content = ld.content, !.cq = cq, !.ta = ta, !.uncaught = FALSE,
                      !.expander = ld.content,
                      !.invokes = sess.invokes + 1,
                      !.last = [content |-> ld.content,
                                question |-> QuestionSent(ta.value, sess.bullets)],
                      !.msgs = ld.msgs \o
                          (IF llm = "answers" THEN <<Msg("analysis", <<"response">>)>>
                           ELSE <<Msg("error", <<"Error: ", "connection refused">>),
                                  Msg("info", <<"Make sure Ollama is running with the correct model">>)>>)]

\* Lines 163-168: the question box, given the current question cq.
QuestionColumn(sess, ld, cq, llm) == AskQuestion(sess, ld, cq, TextArea(sess.ta, cq), llm)

ContentSectionUnguarded(sess, ld, quick, llm) ==
    IF ld.uncaught
    THEN [sess EXCEPT !.msgs = ld.msgs, !.expander = <<>>, !.uncaught = TRUE]
    ELSE QuestionColumn(sess, ld, QuickQuestion(sess.cq, quick, sess.bullets), llm)

\* Lines 148-188: the part of the page below the Load Video branch, whose
\* outcome is ld; it is drawn only when session content is not empty.
ContentSection(sess, ld, quick, llm) ==
    IF ld.uncaught
    THEN [sess EXCEPT !.msgs = ld.msgs, !.expander = <<>>, !.uncaught = TRUE]
    ELSE IF ld.content = <<>>
    THEN [sess EXCEPT !.msgs = ld.msgs, !.ta = NoTextArea, !.expander = <<>>,
                      !.uncaught = FALSE]
    ELSE QuestionColumn(sess, ld, QuickQuestion(sess.cq, quick, sess.bullets), llm)

\* One run of main_page, lines 113-188, from the session state and widget
\* values sess with the buttons clicked in this run.
main_page(sess, clicked, quick, api, llm) ==
    ContentSection(sess,
                   IF clicked THEN LoadVideo(sess.content, sess.url, api)
                   ELSE [uncaught |-> FALSE, content |-> sess.content, msgs |-> <<>>],
                   quick, llm)

VARIABLES c_text, c_out, c_pc,
          g_url, g_api, g_res, g_pc,
          a_req, a_model, a_resp,
          i_cache, i_loads, i_sliders, i_run, i_used, i_runs,
          y_sess

getVars == <<g_url, g_api, g_res, g_pc>>

apiVars == <<a_req, a_model, a_resp>>

irisVars == <<i_cache, i_loads, i_sliders, i_run, i_used, i_runs>>

ytVars == <<y_sess>>


cleanVars == <<c_text, c_out, c_pc>>

NoResult == [outcome |-> "none", ret |-> <<>>, exc |-> Exc("", ""), msgs |-> <<>>, fetched |-> <<>>]

GetIdle ==
    /\ g_url = [parse |-> "ok", query |-> <<>>]
    /\ g_api = [raises |-> FALSE, exc |-> Exc("", ""), list |-> <<>>]
    /\ g_res = NoResult
    /\ g_pc = "idle"

ApiIdle ==
    /\ a_req = [path |-> "none", input |-> [sepal_length |-> 2, sepal_width |-> 2,
                                            petal_length |-> 2, petal_width |-> 2]]
    /\ a_model = [step |-> "predicts", exc |-> Exc("", ""), code |-> 0]
    /\ a_resp = [kind |-> "none", status |-> 0, body |-> NoBody, detail |-> "", exc |-> Exc("", "")]

\* The session after the first run of the script: nothing loaded, the
\* widgets at their defaults, no question box shown.
YtIdle ==
    y_sess = [content |-> <<>>, cq |-> NoQuestion, url |-> DefaultUrl, bullets |-> TRUE,
              ta |-> NoTextArea, invokes |-> 0, last |-> NoInvoke, msgs |-> <<>>,
              expander |-> <<>>, uncaught |-> FALSE]

IrisIdle ==
    /\ i_cache = 0
    /\ i_loads = 0
    /\ i_sliders = SliderDefaults
    /\ i_run = NoRun
    /\ i_used = {}
    /\ i_runs = 0

CleanIdle ==
    /\ c_text = <<>>
    /\ c_out = <<>>
    /\ c_pc = "idle"

vars == <<cleanVars, getVars, apiVars, irisVars, ytVars>>

CleanInit ==
    /\ c_text \in CleanInputs
    /\ c_out = <<>>
    /\ c_pc = "call"
    /\ GetIdle
    /\ ApiIdle
    /\ IrisIdle
    /\ YtIdle

CleanCall ==
    /\ c_pc = "call"
    /\ c_out' = clean_transcript(c_text)
    /\ c_pc' = "returned"
    /\ UNCHANGED <<c_text, getVars, apiVars, irisVars, ytVars>>

CleanNext == CleanCall

SpecClean == CleanInit /\ [][CleanNext]_vars

\* ------------------------------------------------------------------------
\* Calls of get_transcript_content on any URL, against any behaviour of the
\* transcript API.
\* ------------------------------------------------------------------------
GetInit == CleanIdle /\ GetIdle /\ ApiIdle /\ IrisIdle /\ YtIdle

GetCall ==
    \E url \in Urls, api \in ApiBehaviours :
        /\ g_pc = "idle"
        /\ g_url' = url
        /\ g_api' = api
        /\ g_res' = get_transcript_content(url, api)
        /\ g_pc' = "done"
        /\ UNCHANGED <<cleanVars, apiVars, irisVars, ytVars>>

GetNext == GetCall

SpecGet == GetInit /\ [][GetNext]_vars

\* ------------------------------------------------------------------------
\* The FastAPI server answering requests one after another.
\* ------------------------------------------------------------------------
ApiInit == CleanIdle /\ GetIdle /\ ApiIdle /\ IrisIdle /\ YtIdle

GetRoot ==
    /\ a_req' = [a_req EXCEPT !.path = "/"]
    /\ a_resp' = read_root
    /\ UNCHANGED <<a_model, cleanVars, getVars, irisVars, ytVars>>

PostPredict ==
    \E input_data \in PredictionInputs, mb \in ModelBehaviours :
        /\ a_req' = [path |-> "/predict/", input |-> input_data]
        /\ a_model' = mb
        /\ a_resp' = predict(input_data, mb)
        /\ UNCHANGED <<cleanVars, getVars, irisVars, ytVars>>

ApiNext == GetRoot \/ PostPredict

SpecApi == ApiInit /\ [][ApiNext]_vars

\* ------------------------------------------------------------------------
\* The Streamlit Iris app: a browser session opens, sliders move; each
\* interaction runs the script once against the process-wide cache.
\* ------------------------------------------------------------------------
IrisInit == CleanIdle /\ GetIdle /\ ApiIdle /\ IrisIdle /\ YtIdle

\* The effect of one run of the script on the cache and on the page.
IrisRerun(rb) ==
    LET lm == load_model(i_cache, i_loads, rb)
        run == IrisScript(i_cache, i_loads, rb)
    IN /\ i_cache' = lm.cache
       /\ i_loads' = lm.loads
       /\ i_run' = run
       /\ i_used' = IF ~lm.raised THEN i_used \cup {lm.model} ELSE i_used
       /\ i_runs' = i_runs + 1

OpenSession ==
    \E rb \in RunBehaviours :
        /\ i_runs < MaxRuns
        /\ i_sliders' = SliderDefaults
        /\ IrisRerun(rb)
        /\ UNCHANGED <<cleanVars, getVars, apiVars, ytVars>>

MoveSlider ==
    \E name \in SliderNames, rb \in RunBehaviours :
        \E v \in SliderRange[name] \ {i_sliders[name]} :
            /\ i_runs > 0
            /\ i_runs < MaxRuns
            /\ i_sliders' = [i_sliders EXCEPT ![name] = v]
            /\ IrisRerun(rb)
            /\ UNCHANGED <<cleanVars, getVars, apiVars, ytVars>>

IrisNext == OpenSession \/ MoveSlider

SpecIris == IrisInit /\ [][IrisNext]_vars

\* ------------------------------------------------------------------------
\* The transcript Q&A app: every interaction changes one widget or clicks
\* one button and runs main_page once.
\* ------------------------------------------------------------------------
YtInit == CleanIdle /\ GetIdle /\ ApiIdle /\ IrisIdle /\ YtIdle

EditUrl ==
    \E url \in YtUrls \ {y_sess.url}, llm \in LlmBehaviours :
        /\ y_sess.invokes < MaxInvokes
        /\ y_sess' = main_page([y_sess EXCEPT !.url = url], FALSE, 0, NoApiCall, llm)
        /\ UNCHANGED <<cleanVars, getVars, apiVars, irisVars>>

ClickLoadVideo ==
    \E api \in YtApiBehaviours, llm \in LlmBehaviours :
        /\ y_sess.invokes < MaxInvokes
        /\ y_sess' = main_page(y_sess, TRUE, 0, api, llm)
        /\ UNCHANGED <<cleanVars, getVars, apiVars, irisVars>>

ToggleBullets ==
    \E llm \in LlmBehaviours :
        /\ y_sess.invokes < MaxInvokes
        /\ y_sess' = main_page([y_sess EXCEPT !.bullets = ~y_sess.bullets], FALSE, 0,
                               NoApiCall, llm)
        /\ UNCHANGED <<cleanVars, getVars, apiVars, irisVars>>

\* The quick-question buttons exist once a transcript is stored.
ClickQuickQuestion ==
    \E quick \in 1..Len(SUGGESTED_QUESTIONS), llm \in LlmBehaviours :
        /\ y_sess.invokes < MaxInvokes
        /\ y_sess.content # <<>>
        /\ y_sess' = main_page(y_sess, FALSE, quick, NoApiCall, llm)
        /\ UNCHANGED <<cleanVars, getVars, apiVars, irisVars>>

\* The question box exists once a transcript is stored.
EditQuestion ==
    \E q \in UserQuestions \ {y_sess.ta.value}, llm \in LlmBehaviours :
        /\ y_sess.invokes < MaxInvokes
        /\ y_sess.ta.shown
        /\ y_sess' = main_page([y_sess EXCEPT !.ta.value = q], FALSE, 0,
                               NoApiCall, llm)
        /\ UNCHANGED <<cleanVars, getVars, apiVars, irisVars>>

YtNext == EditUrl \/ ClickLoadVideo \/ ToggleBullets \/ ClickQuickQuestion \/ EditQuestion

SpecYt == YtInit /\ [][YtNext]_vars

\* ------------------------------------------------------------------------
\* Properties of clean_transcript (SpecClean)
\* ------------------------------------------------------------------------

\* C2: the result of clean_transcript contains no occurrence of "[Music]"
\* and no occurrence of "[Applause]", whatever the input.
C2_NoMarkerRemains ==
    c_pc = "returned" => (~Contains(c_out, MUSIC) /\ ~Contains(c_out, APPLAUSE))

IsPrefix(s, t) == Len(s) <= Len(t) /\ s = SubSeq(t, 1, Len(s))

\* C3: clean_transcript returns at most 4000 characters, and when the
\* cleaned text is longer it returns exactly its first 4000 characters.
C3_LengthBound ==
    c_pc = "returned" =>
        /\ Len(c_out) <= 4000
        /\ IsPrefix(c_out, CleanedText(c_text))
        /\ Len(CleanedText(c_text)) > 4000 => Len(c_out) = 4000
        /\ Len(CleanedText(c_text)) <= 4000 => c_out = CleanedText(c_text)

C3_Witness ==
    /\ c_pc = "returned"
    /\ Len(CleanedText(c_text)) > 4000
    /\ Len(c_out) = 4000

\* ------------------------------------------------------------------------
\* Properties of get_transcript_content (SpecGet)
\* ------------------------------------------------------------------------
HasVParameter(url) ==
    \E i \in 1..Len(url.query) : url.query[i][1] = "v" /\ url.query[i][2] # ""

\* C4: for a URL whose query string has no v parameter, or only empty ones,
\* get_transcript_content returns the empty string, reports "Invalid
\* YouTube URL" and never calls the transcript API.
C4_InvalidUrl ==
    (g_pc = "done" /\ g_url.parse = "ok" /\ ~HasVParameter(g_url)) =>
        /\ g_res.outcome = "return"
        /\ g_res.ret = <<>>
        /\ g_res.msgs = <<[kind |-> "error", text |-> <<"Invalid YouTube URL">>]>>
        /\ g_res.fetched = <<>>

C4_Witness ==
    /\ g_pc = "done"
    /\ g_url.parse = "ok"
    /\ \E i \in 1..Len(g_url.query) : g_url.query[i] = <<"v", "">>
    /\ ~HasVParameter(g_url)
    /\ g_api.raises
    /\ g_res.msgs # <<>>

\* The exception a call meets, from its inputs: urlparse raising, the fetch
\* raising, or a segment without "text" in the join.
C9_Raised(url, api) ==
    \/ url.parse = "raises"
    \/ url.parse = "ok" /\ HasVParameter(url)
         /\ (api.raises \/ \E i \in 1..Len(api.list) : ~api.list[i].hasText)

C9_ExcText(url, api) ==
    IF url.parse = "raises" THEN "Invalid IPv6 URL"
    ELSE IF api.raises THEN api.exc.text
    ELSE "'text'"

\* C9: get_transcript_content never raises; when URL parsing, the fetch or
\* the join raises it reports "Error getting transcript: <text>" and
\* returns the empty string; a non-empty return value is the output of
\* clean_transcript.
C9_NeverRaises ==
    g_pc = "done" =>
        /\ g_res.outcome = "return"
        /\ C9_Raised(g_url, g_api) =>
              /\ g_res.ret = <<>>
              /\ g_res.msgs = <<[kind |-> "error",
                                 text |-> <<"Error getting transcript: ",
                                            C9_ExcText(g_url, g_api)>>]>>
        /\ g_res.ret # <<>> =>
              g_res.ret = clean_transcript(
                  StrJoin(<<" ">>, [i \in 1..Len(g_api.list) |-> g_api.list[i].text]))

C9_Witness ==
    /\ g_pc = "done"
    /\ HasVParameter(g_url)
    /\ ~g_api.raises
    /\ \E i \in 1..Len(g_api.list) : ~g_api.list[i].hasText
    /\ g_res.outcome = "return"
    /\ g_res.ret = <<>>
    /\ Len(g_res.msgs) = 1

\* ------------------------------------------------------------------------
\* Properties of POST /predict/ (SpecApi)
\* ------------------------------------------------------------------------

\* C1: a successful response's "prediction" is one of 'setosa',
\* 'versicolor', 'virginica', whatever integer model.predict yields.
C1_KnownLabel ==
    (a_req.path = "/predict/" /\ a_resp.kind = "json") =>
        a_resp.body.prediction \in {"setosa", "versicolor", "virginica"}

C1_Witness ==
    /\ a_req.path = "/predict/"
    /\ a_resp.kind = "json"
    /\ a_model.code = -1
    /\ a_resp.body.prediction = "virginica"

\* C5: POST /predict/ ends in exactly one of two ways: a body with a label
\* and its code, or, when a step raised, an HTTP 500 whose detail is the
\* exception's text; no other exception leaves the handler.
C5_TwoOutcomes ==
    a_req.path = "/predict/" =>
        \/ /\ a_resp.kind = "json"
           /\ a_model.step = "predicts"
           /\ a_resp.body.prediction # ""
           /\ a_resp.body.prediction_code = a_model.code
        \/ /\ a_resp.kind = "http_exception"
           /\ a_resp.status = 500
           /\ a_resp.detail =
                 IF a_model.step = "predicts" THEN "list index out of range"
                 ELSE a_model.exc.text

C5_Witness ==
    /\ a_req.path = "/predict/"
    /\ a_model.step = "predicts"
    /\ a_model.code = 3
    /\ a_resp.kind = "http_exception"
    /\ a_resp.detail = "list index out of range"

\* C10: in every successful response prediction_code is in {0, 1, 2} and
\* prediction is the label at that position of setosa, versicolor,
\* virginica.
C10_CodeMatchesLabel ==
    (a_req.path = "/predict/" /\ a_resp.kind = "json") =>
        /\ a_resp.body.prediction_code \in {0, 1, 2}
        /\ a_resp.body.prediction =
              <<"setosa", "versicolor", "virginica">>[a_resp.body.prediction_code + 1]

\* ------------------------------------------------------------------------
\* Properties of the Streamlit Iris app (SpecIris)
\* ------------------------------------------------------------------------

\* C6: an exception raised by an external call (classifier predict or
\* predict_proba here) is caught at the call site and shown as a message;
\* it never leaves the script uncaught.
C6_ExternalCallsCaught ==
    ~(i_run.kind = "uncaught" /\ i_run.origin \in {"predict", "predict_proba"})

\* C8: across reruns the artifact is loaded at most once, every run
\* predicts with the one cached object, and a filled cache is never
\* written again.
C8_CachedSingleton ==
    [][ /\ i_loads' <= 1
        /\ i_used' \subseteq {i_cache'}
        /\ Cardinality(i_used') <= 1
        /\ i_cache # 0 => (i_cache' = i_cache /\ i_loads' = i_loads) ]_vars

C8_Witness ==
    /\ i_runs >= 2
    /\ i_loads = 1
    /\ i_cache = 1
    /\ i_used = {1}
    /\ i_run.kind = "rendered"
    /\ i_run.model = 1
    /\ i_sliders # SliderDefaults

\* ------------------------------------------------------------------------
\* Properties of the transcript Q&A app (SpecYt)
\* ------------------------------------------------------------------------

\* C7: chain.invoke runs once per question: an interaction that leaves the
\* question box and the bullet-points checkbox as they were after an
\* earlier invocation does not invoke the chain again.
C7_OncePerQuestion ==
    [][ (y_sess.invokes > 0 /\ y_sess'.ta = y_sess.ta /\ y_sess'.bullets = y_sess.bullets)
            => y_sess'.invokes = y_sess.invokes ]_vars

\* A message of the last run.
Shown(kind, text) ==
    \E i \in 1..Len(y_sess.msgs) : y_sess.msgs[i] = [kind |-> kind, text |-> <<text>>]
ShownNext(kind, text) ==
    \E i \in 1..Len(y_sess'.msgs) : y_sess'.msgs[i] = [kind |-> kind, text |-> <<text>>]

\* C11: a Load Video that fails ("Could not load transcript") leaves the
\* session content as it was: a transcript loaded before stays stored,
\* stays displayed and is the content sent with the question; the session
\* content changes only in a run that reports "Loaded!", to a non-empty
\* transcript.
C11_FailedLoadKeepsContent ==
    [][ /\ ShownNext("error", "Could not load transcript") =>
              /\ y_sess'.content = y_sess.content
              /\ y_sess'.expander = y_sess.content
              /\ y_sess'.invokes > y_sess.invokes => y_sess'.last.content = y_sess.content
        /\ y_sess'.content # y_sess.content =>
              /\ ShownNext("success", "Loaded!")
              /\ y_sess'.content # <<>> ]_vars

C11_Witness ==
    /\ Shown("error", "Could not load transcript")
    /\ y_sess.content = <<"h", "i">>
    /\ y_sess.expander = <<"h", "i">>
    /\ y_sess.invokes >= 2
    /\ y_sess.last.content = <<"h", "i">>

\* C12: chain.invoke is called only while a non-empty transcript is stored
\* in the session and the question box is not empty; while nothing has been
\* loaded the chain has never been invoked, and the content passed is the
\* stored session transcript.
C12_InvokeNeedsContent ==
    [][ /\ y_sess'.invokes > y_sess.invokes =>
              /\ y_sess'.content # <<>>
              /\ y_sess'.ta.shown
              /\ y_sess'.ta.value # <<>>
              /\ y_sess'.last.content = y_sess'.content
        /\ y_sess'.content = <<>> => y_sess'.invokes = 0 ]_vars

C12_Witness ==
    /\ y_sess.invokes >= 1
    /\ y_sess.content = <<" ", "o", "k">>
    /\ y_sess.last.content = <<" ", "o", "k">>
    /\ y_sess.ta.value = <<"h", "i", "?">>
    /\ y_sess.url # DefaultUrl

\* The question box holds a suggested question as a button stored it.
C13_QuickQuestionInBox(q) ==
    \E k \in 1..Len(SUGGESTED_QUESTIONS) :
        q = SUGGESTED_QUESTIONS[k] \/ q = SUGGESTED_QUESTIONS[k] \o BulletSuffix

\* The relation between the question box q, the checkbox and the question s
\* handed to the chain: the suffix is appended once when the box is checked
\* and q has no "bullet points" in any letter case, and s is q otherwise; a
\* suggested question carries the suffix at most once.
C13_SuffixRule(q, checked, s) ==
    /\ IF checked /\ ~Contains(StrLower(q), BulletNeedle)
       THEN s = q \o BulletSuffix
       ELSE s = q
    /\ C13_QuickQuestionInBox(q) => Cardinality(Occurrences(s, BulletSuffix)) <= 1

\* C13 as stated: the suffix rule holds for every invocation and, with the
\* checkbox checked, the question sent contains the text "bullet points".
C13_SentContainsBulletPoints ==
    [][ y_sess'.invokes > y_sess.invokes =>
          \A q \in {y_sess'.ta.value}, s \in {y_sess'.last.question} :
              /\ C13_SuffixRule(q, y_sess'.bullets, s)
              /\ y_sess'.bullets => Contains(s, BulletNeedle) ]_vars

\* C13, amended: the suffix rule holds for every invocation and, with the
\* checkbox checked, the question sent contains "bullet points" in some
\* letter case.
C13_SentContainsBulletPointsAnyCase ==
    [][ y_sess'.invokes > y_sess.invokes =>
          \A q \in {y_sess'.ta.value}, s \in {y_sess'.last.question} :
              /\ C13_SuffixRule(q, y_sess'.bullets, s)
              /\ y_sess'.bullets => Contains(StrLower(s), BulletNeedle) ]_vars

C13_Witness ==
    /\ y_sess.invokes >= 1
    /\ y_sess.bullets
    /\ y_sess.cq.set
    /\ y_sess.cq.text = SUGGESTED_QUESTIONS[1] \o BulletSuffix
    /\ y_sess.ta.value = y_sess.cq.text
    /\ y_sess.last.question = y_sess.ta.value

====
